---- MODULE Spec2Model ----
(***************************************************************************)
(* Model of the YouTube Music candidate search-and-scoring engine          *)
(* (core/youtube_searcher.py, class YouTubeMusicSearcher).                 *)
(*                                                                         *)
(* Python strings are sequences of one-character strings, so that lower(), *)
(* split(), the `in` operator and the regular expressions of the source    *)
(* are computed and not assumed.  Python dicts are TLA+ records whose      *)
(* DOMAIN is the set of keys present; Python's None is the record None.    *)
(* A float that the source only ever truncates with int(x * k) is kept as  *)
(* an exact fraction <<numerator, denominator>>.                           *)
(***************************************************************************)
EXTENDS Integers, Sequences, FiniteSets, TLC

VARIABLES
    pc,            \* position of the running search() call
    pass,          \* number of the pass being executed (0 before pass 1)
    mode,          \* filter mode being collected: 1 'songs', 2 'videos', 3 no filter
    fetched,       \* number of records of the current response already iterated over
    query,         \* query string of the current pass
    all_videos,    \* _search_with_query's local list all_videos
    best_pass,     \* search's local best_pass1 / best_pass2 / best_pass3
    best_overall,  \* search's local best_overall
    result,        \* the value search() returned (None until it returns)
    raised,        \* TRUE iff an exception left search() for its caller
    failed,        \* history: the modes of the current pass whose try block raised
    requests,      \* history: the catalog requests issued so far, as <<pass, mode, query>>
    nonempty,      \* history: TRUE iff some response of this search held a record
    max_collected, \* history: {} or {highest score among the candidates of the passes scored so far}
    origin,        \* collector history: for each entry of all_videos, the mode and raw record it was built from
    last,          \* collector history: the raw record the latest loop iteration looked at
    args,          \* the arguments of the call: track_name, artist_name, duration_seconds
    loop_video,    \* _find_best_match's loop variable video (None outside the loop)
    loop_score,    \* _find_best_match's local score
    accepted,      \* TRUE iff the loop body appended the video to scored_videos
    ydl_opts,      \* the searcher's stored options self.ydl_opts
    opts,          \* search's local opts (None before line 97)
    _progress,     \* ProgressTracker._progress: download_id -> progress
    _status,       \* ProgressTracker._status: download_id -> status message
    _completed,    \* ProgressTracker._completed: download_id -> completion flag
    _subscribers,  \* ProgressTracker._subscribers: download_id -> list of queues
    queues,        \* the asyncio.Queue of each progress stream: the messages not yet taken
    stream,        \* the position of each progress stream's event_generator
    task           \* the download task: its kind, its position, the updates it has sent

\* the state of search() and the history of the whole search
search_vars == <<pc, pass, mode, fetched, query, all_videos, best_pass, best_overall, result,
                 raised, failed, requests, nonempty, max_collected>>

\* the state of the loop body of _find_best_match
score_vars == <<loop_video, loop_score, accepted>>

\* the searcher's options and search's own copy of them
self_vars == <<ydl_opts, opts>>

\* the progress tracker, the progress streams and the download task
progress_vars == <<_progress, _status, _completed, _subscribers, queues, stream, task>>

vars == <<search_vars, origin, last, args, score_vars, self_vars, progress_vars>>

(***************************************************************************)
(* Python values                                                           *)
(***************************************************************************)
None == [none |-> TRUE]

\* dict.get(key, default)
Get(d, key, default) == IF key \in DOMAIN d THEN d[key] ELSE default

Min(a, b) == IF a <= b THEN a ELSE b

Abs(x) == IF x < 0 THEN -x ELSE x

(***************************************************************************)
(* str primitives                                                          *)
(***************************************************************************)
Upper == <<"A", "B", "C", "D", "E", "F", "G", "H", "I", "J", "K", "L", "M",
           "N", "O", "P", "Q", "R", "S", "T", "U", "V", "W", "X", "Y", "Z">>

Lowercase == <<"a", "b", "c", "d", "e", "f", "g", "h", "i", "j", "k", "l", "m",
               "n", "o", "p", "q", "r", "s", "t", "u", "v", "w", "x", "y", "z">>

Whitespace == {" ", "\t", "\n"}

LowerChar(c) ==
    IF \E i \in 1..26 : Upper[i] = c
    THEN Lowercase[CHOOSE i \in 1..26 : Upper[i] = c]
    ELSE c

\* str.lower()
lower(s) == [i \in 1..Len(s) |-> LowerChar(s[i])]

\* s[i:] starts with prefix p (0-based i)
StartsAt(s, i, p) ==
    /\ i + Len(p) <= Len(s)
    /\ \A k \in 1..Len(p) : s[i + k] = p[k]

\* Python's `sub in s`
IsIn(sub, s) == \E i \in 0..(Len(s) - Len(sub)) : StartsAt(s, i, sub)

\* str.split() with no argument: the maximal runs of non-whitespace
RECURSIVE SplitFrom(_, _, _)
SplitFrom(s, i, word) ==
    IF i > Len(s)
    THEN (IF word = <<>> THEN <<>> ELSE <<word>>)
    ELSE IF s[i] \in Whitespace
         THEN (IF word = <<>> THEN <<>> ELSE <<word>>) \o SplitFrom(s, i + 1, <<>>)
         ELSE SplitFrom(s, i + 1, Append(word, s[i]))

split(s) == SplitFrom(s, 1, <<>>)

\* ' '.join(words)
RECURSIVE join(_)
join(words) ==
    IF words = <<>> THEN <<>>
    ELSE IF Len(words) = 1 THEN words[1]
    ELSE words[1] \o <<" ">> \o join(Tail(words))

\* str.strip()
RECURSIVE strip(_)
strip(s) ==
    IF s = <<>> THEN s
    ELSE IF s[1] \in Whitespace THEN strip(Tail(s))
    ELSE IF s[Len(s)] \in Whitespace THEN strip(SubSeq(s, 1, Len(s) - 1))
    ELSE s

SeqToSet(s) == {s[i] : i \in 1..Len(s)}

(***************************************************************************)
(* difflib.SequenceMatcher(None, a, b).ratio() for strings shorter than    *)
(* 200 characters (no autojunk): 2 * M / T with M the total size of the    *)
(* matching blocks found by recursive longest-match                        *)
(***************************************************************************)
\* a[i:i+k] = b[j:j+k] (0-based i, j)
BlockAt(a, b, i, j, k) == \A d \in 1..k : a[i + d] = b[j + d]

\* find_longest_match(alo, ahi, blo, bhi): longest block, earliest in a, then earliest in b
LongestMatch(a, b, alo, ahi, blo, bhi) ==
    LET blocks == {t \in (alo..(ahi - 1)) \X (blo..(bhi - 1)) \X (1..Min(ahi - alo, bhi - blo)) :
                      /\ t[1] + t[3] <= ahi
                      /\ t[2] + t[3] <= bhi
                      /\ BlockAt(a, b, t[1], t[2], t[3])}
        Better(t, u) == \/ t[3] > u[3]
                        \/ t[3] = u[3] /\ t[1] < u[1]
                        \/ t[3] = u[3] /\ t[1] = u[1] /\ t[2] <= u[2]
    IN  IF blocks = {} THEN <<alo, blo, 0>>
        ELSE CHOOSE t \in blocks : \A u \in blocks : Better(t, u)

RECURSIVE MatchingSize(_, _, _, _, _, _)
MatchingSize(a, b, alo, ahi, blo, bhi) ==
    LET m == LongestMatch(a, b, alo, ahi, blo, bhi)
    IN  IF m[3] = 0 THEN 0
        ELSE m[3]
             + (IF alo < m[1] /\ blo < m[2]
                THEN MatchingSize(a, b, alo, m[1], blo, m[2]) ELSE 0)
             + (IF m[1] + m[3] < ahi /\ m[2] + m[3] < bhi
                THEN MatchingSize(a, b, m[1] + m[3], ahi, m[2] + m[3], bhi) ELSE 0)

SequenceMatcherRatio(a, b) ==
    IF Len(a) + Len(b) = 0 THEN <<1, 1>>
    ELSE <<2 * MatchingSize(a, b, 0, Len(a), 0, Len(b)), Len(a) + Len(b)>>

(***************************************************************************)
(* Fractions standing for the floats of the source                         *)
(***************************************************************************)
\* int(x * k) for the fraction x >= 0
IntTimes(x, k) == (x[1] * k) \div x[2]

\* max(x, y): Python returns the first argument on a tie
FracMax(x, y) == IF y[1] * x[2] > x[1] * y[2] THEN y ELSE x

(***************************************************************************)
(* _calculate_similarity                                                   *)
(***************************************************************************)
\* variant of _calculate_similarity that tries the word overlap before containment
_calculate_similarity_JaccardFirst(str1, str2) ==
    IF str1 = str2 THEN <<1, 1>>
    ELSE LET words1 == SeqToSet(split(str1))
             words2 == SeqToSet(split(str2))
         IN  IF words1 # {} /\ words2 # {}
             THEN <<Cardinality(words1 \cap words2), Cardinality(words1 \cup words2)>>
             ELSE IF IsIn(str1, str2) \/ IsIn(str2, str1) THEN <<4, 5>>
             ELSE SequenceMatcherRatio(lower(str1), lower(str2))

\* variant of _calculate_similarity in which an empty string is contained in nothing
_calculate_similarity_NoEmptyContainment(str1, str2) ==
    IF str1 = str2 THEN <<1, 1>>
    ELSE IF str1 # <<>> /\ str2 # <<>> /\ (IsIn(str1, str2) \/ IsIn(str2, str1)) THEN <<4, 5>>
    ELSE LET words1 == SeqToSet(split(str1))
             words2 == SeqToSet(split(str2))
         IN  IF words1 # {} /\ words2 # {}
             THEN <<Cardinality(words1 \cap words2), Cardinality(words1 \cup words2)>>
             ELSE SequenceMatcherRatio(lower(str1), lower(str2))

_calculate_similarity(str1, str2) ==
    IF str1 = str2 THEN <<1, 1>>
    ELSE IF IsIn(str1, str2) \/ IsIn(str2, str1) THEN <<4, 5>>
    ELSE LET words1 == SeqToSet(split(str1))
             words2 == SeqToSet(split(str2))
         IN  IF words1 # {} /\ words2 # {}
             THEN <<Cardinality(words1 \cap words2), Cardinality(words1 \cup words2)>>
             ELSE SequenceMatcherRatio(lower(str1), lower(str2))

(***************************************************************************)
(* _build_search_query                                                     *)
(***************************************************************************)
\* first 0-based index j >= from with s[j] = close and no line break in
\* s[from:j], or -1: the `.` of `.*?` does not match a line break
RECURSIVE FindClose(_, _, _)
FindClose(s, from, close) ==
    IF from >= Len(s) THEN -1
    ELSE IF s[from + 1] = close THEN from
    ELSE IF s[from + 1] = "\n" THEN -1
    ELSE FindClose(s, from + 1, close)

\* re.sub(<open literal> .*? <close char>, '', s): leftmost, non-greedy, non-overlapping
RECURSIVE SubFrom(_, _, _, _, _)
SubFrom(s, i, open, close, ignorecase) ==
    IF i >= Len(s) THEN <<>>
    ELSE LET hay == IF ignorecase THEN lower(s) ELSE s
             j == IF StartsAt(hay, i, open) THEN FindClose(s, i + Len(open), close) ELSE -1
         IN  IF j >= 0
             THEN SubFrom(s, j + 1, open, close, ignorecase)
             ELSE <<s[i + 1]>> \o SubFrom(s, i + 1, open, close, ignorecase)

re_sub(open, close, s, ignorecase) == SubFrom(s, 0, open, close, ignorecase)

_build_search_query(track, artist) ==
    LET q0 == strip(track \o <<" ">> \o artist)
        q1 == re_sub(<<"(", "f", "e", "a", "t", ".">>, ")", q0, TRUE)
        q2 == re_sub(<<"(", "f", "t", ".">>, ")", q1, TRUE)
        q3 == re_sub(<<"(", "f", "e", "a", "t", "u", "r", "i", "n", "g">>, ")", q2, TRUE)
        q4 == re_sub(<<"[">>, "]", q3, FALSE)
        q5 == re_sub(<<"(">>, ")", q4, FALSE)
    IN  join(split(q5))

(***************************************************************************)
(* _find_best_match: the score of one video, criterion by criterion         *)
(***************************************************************************)
MIN_SCORE == 100

HIGH_CONFIDENCE == 180

good_words ==
    << <<"l", "y", "r", "i", "c", "s">>,
       <<"l", "y", "r", "i", "c", " ", "v", "i", "d", "e", "o">>,
       <<"a", "u", "d", "i", "o">>,
       <<"o", "f", "f", "i", "c", "i", "a", "l", " ", "a", "u", "d", "i", "o">> >>

bad_keywords ==
    << <<"s", "i", "n", "g", "-", "a", "l", "o", "n", "g">>,
       <<"s", "i", "n", "g", " ", "a", "l", "o", "n", "g">>,
       <<"s", "i", "n", "g", "a", "l", "o", "n", "g">>,
       <<"k", "a", "r", "a", "o", "k", "e">>,
       <<"i", "n", "s", "t", "r", "u", "m", "e", "n", "t", "a", "l">>,
       <<"r", "e", "m", "i", "x">>,
       <<"c", "o", "v", "e", "r">>,
       <<"n", "i", "g", "h", "t", "c", "o", "r", "e">>,
       <<"s", "l", "o", "w", "e", "d">>,
       <<"r", "e", "v", "e", "r", "b">>,
       <<"8", "d", " ", "a", "u", "d", "i", "o">>,
       <<"b", "a", "s", "s", " ", "b", "o", "o", "s", "t">>,
       <<"s", "p", "e", "d", " ", "u", "p">> >>

\* track_words = [w for w in track_lower.split() if len(w) > 2]
track_words(track_lower) == SelectSeq(split(track_lower), LAMBDA w : Len(w) > 2)

\* variant of track_match_score that also penalises a coverage of exactly one half
track_match_score_StrictHalf(title, track_lower) ==
    LET words == track_words(track_lower)
        matched_words == Cardinality({i \in 1..Len(words) : IsIn(words[i], title)})
    IN  IF words = <<>> THEN 0
        ELSE IF 2 * matched_words <= Len(words) THEN -100
        ELSE IntTimes(<<matched_words, Len(words)>>, 50)

\* variant of track_match_score with a penalty of 50 instead of 100
track_match_score_SoftPenalty(title, track_lower) ==
    LET words == track_words(track_lower)
        matched_words == Cardinality({i \in 1..Len(words) : IsIn(words[i], title)})
    IN  IF words = <<>> THEN 0
        ELSE IF 2 * matched_words < Len(words) THEN -50
        ELSE IntTimes(<<matched_words, Len(words)>>, 50)

\* Track word match: -100 below 50 percent, else int(match_percent * 50)
track_match_score(title, track_lower) ==
    LET words == track_words(track_lower)
        matched_words == Cardinality({i \in 1..Len(words) : IsIn(words[i], title)})
    IN  IF words = <<>> THEN 0
        ELSE IF 2 * matched_words < Len(words) THEN -100
        ELSE IntTimes(<<matched_words, Len(words)>>, 50)

\* Artist name presence
artist_presence_score(title, uploader, artist_lower) ==
    IF IsIn(artist_lower, title) \/ IsIn(artist_lower, uploader) THEN 20 ELSE -10

\* variant of duration_score that does not skip the criterion when the expected
\* duration is unknown
duration_score_NoSkip(duration, expected_duration) ==
    IF duration > 0
    THEN LET duration_diff == Abs(duration - expected_duration)
         IN  IF duration_diff <= 3 THEN 30
             ELSE IF duration_diff <= 10 THEN 20
             ELSE IF duration_diff <= 30 THEN 10
             ELSE -10
    ELSE 0

\* Duration matching
duration_score(duration, expected_duration) ==
    IF expected_duration > 0 /\ duration > 0
    THEN LET duration_diff == Abs(duration - expected_duration)
         IN  IF duration_diff <= 3 THEN 30
             ELSE IF duration_diff <= 10 THEN 20
             ELSE IF duration_diff <= 30 THEN 10
             ELSE -10
    ELSE 0

\* variant of view_score that treats a view count of 0 (unknown) as neutral
view_score_UnknownNeutral(view_count) ==
    IF view_count >= 1000000 THEN 15
    ELSE IF view_count >= 100000 THEN 10
    ELSE IF view_count >= 10000 THEN 5
    ELSE IF view_count >= 1000 \/ view_count = 0 THEN 0
    ELSE -5

\* View count
view_score(view_count) ==
    IF view_count >= 1000000 THEN 15
    ELSE IF view_count >= 100000 THEN 10
    ELSE IF view_count >= 10000 THEN 5
    ELSE IF view_count >= 1000 THEN 0
    ELSE -5

\* Title keywords: +15 once, for the first good word found
good_word_score(title) ==
    IF \E i \in 1..Len(good_words) : IsIn(good_words[i], title) THEN 15 ELSE 0

\* Official (non-video)
official_score(title) ==
    IF /\ IsIn(<<"o", "f", "f", "i", "c", "i", "a", "l">>, title)
       /\ ~IsIn(<<"m", "u", "s", "i", "c", " ", "v", "i", "d", "e", "o">>, title)
       /\ ~IsIn(<<"o", "f", "f", "i", "c", "i", "a", "l", " ", "v", "i", "d", "e", "o">>, title)
    THEN 10 ELSE 0

\* Title similarity: int(title_similarity * 50)
title_score(title, track_lower) == IntTimes(_calculate_similarity(track_lower, title), 50)

\* variant of artist_score that compares the artist with the uploader only
artist_score_UploaderOnly(title, uploader, artist_lower) ==
    IntTimes(_calculate_similarity(artist_lower, uploader), 30)

\* Artist similarity: int(max(artist_in_uploader, artist_in_title) * 30)
artist_score(title, uploader, artist_lower) ==
    LET artist_in_uploader == _calculate_similarity(artist_lower, uploader)
        artist_in_title == _calculate_similarity(artist_lower, title)
    IN  IntTimes(FracMax(artist_in_uploader, artist_in_title), 30)

\* variant of keyword_penalty that stops at the first bad keyword found
keyword_penalty_FirstMatchOnly(title) ==
    IF \E i \in 1..Len(bad_keywords) : IsIn(bad_keywords[i], title) THEN -50 ELSE 0

\* Keyword penalties: -50 for each bad keyword found
keyword_penalty(title) ==
    -50 * Cardinality({i \in 1..Len(bad_keywords) : IsIn(bad_keywords[i], title)})

\* video.get('view_count', 0) or 0 (a view count, when present, is a number here)
view_count_of(video) == Get(video, "view_count", 0)

\* the body of the scoring loop: the total score of one video
score_video(video, track_name, artist_name, expected_duration) ==
    LET title == lower(Get(video, "title", <<>>))
        track_lower == lower(track_name)
        artist_lower == lower(artist_name)
        uploader == lower(Get(video, "uploader", <<>>))
    IN  track_match_score(title, track_lower)
        + artist_presence_score(title, uploader, artist_lower)
        + duration_score(Get(video, "duration", 0), expected_duration)
        + view_score(view_count_of(video))
        + good_word_score(title)
        + official_score(title)
        + title_score(title, track_lower)
        + artist_score(title, uploader, artist_lower)
        + keyword_penalty(title)

(***************************************************************************)
(* The search under analysis and the catalog it runs against               *)
(***************************************************************************)
\* __init__: the options the searcher stores
YdlOpts ==
    [format |-> "bestaudio/best",
     extract_flat |-> FALSE,
     quiet |-> TRUE,
     no_warnings |-> TRUE,
     ignoreerrors |-> TRUE,
     default_search |-> "ytsearch",
     socket_timeout |-> 30]

\* the arguments of search(): track_name, artist_name, duration_seconds and,
\* when one is passed, proxy
Target ==
    [track_name |-> <<"O", "f", "f", "i", "c", "i", "a", "l", " ", "H", "i", "t">>,
     artist_name |-> <<"A", "b">>,
     duration_seconds |-> 200]

\* the target of Scenario A
ScenarioATarget ==
    [track_name |-> <<"M", "r", ".", " ", "B", "r", "i", "g", "h", "t", "s",
                     "i", "d", "e">>,
     artist_name |-> <<"T", "h", "e", " ", "K", "i", "l", "l", "e", "r", "s">>,
     duration_seconds |-> 222]

\* a call with a negative expected duration
NegativeTarget ==
    [track_name |-> <<"M", "r", ".", " ", "B", "r", "i", "g", "h", "t", "s",
                     "i", "d", "e">>,
     artist_name |-> <<"T", "h", "e", " ", "K", "i", "l", "l", "e", "r", "s">>,
     duration_seconds |-> -1]

\* the Scenario A call with a proxy passed
ProxyTarget ==
    [track_name |-> <<"M", "r", ".", " ", "B", "r", "i", "g", "h", "t", "s",
                     "i", "d", "e">>,
     artist_name |-> <<"T", "h", "e", " ", "K", "i", "l", "l", "e", "r", "s">>,
     duration_seconds |-> 222,
     proxy |-> <<"h", "t", "t", "p", ":", "/", "/", "p", ":", "8", "0">>]

\* a title of four words longer than two characters, duration unknown
FourWordTarget ==
    [track_name |-> <<"R", "e", "d", " ", "S", "k", "y", " ", "S", "u", "n",
                     " ", "S", "e", "a">>,
     artist_name |-> <<"A", "b">>,
     duration_seconds |-> 0]

\* a title without a word longer than two characters
ShortWordTarget ==
    [track_name |-> <<"U", "p">>,
     artist_name |-> <<"A", "b">>,
     duration_seconds |-> 200]

\* a title of five words that holds a good word and 'official'
FiveWordTarget ==
    [track_name |-> <<"O", "f", "f", "i", "c", "i", "a", "l", " ", "A", "u",
                     "d", "i", "o", " ", "R", "e", "d", " ", "S", "k", "y",
                     " ", "S", "u", "n">>,
     artist_name |-> <<"A", "b">>,
     duration_seconds |-> 200]

\* the arguments the searches under analysis are called with
Targets == {Target, ScenarioATarget, NegativeTarget, ProxyTarget}

\* most records one catalog response holds (the limit passed as max_results)
max_results == 2

\* the raw records the catalog may put into a response, in any order and number
RawRecords ==
    { [videoId |-> "a", title |-> <<"H", "i", "t">>, duration_seconds |-> 260,
       artists |-> <<[name |-> <<"A", "b">>]>>],
      [videoId |-> "a", title |-> <<"H", "i", "t", " ", "O", "f", "f", "i", "c", "i", "a", "l">>, duration_seconds |-> 200,
       artists |-> <<[name |-> <<"A", "b", "c">>]>>],
      [videoId |-> "b", title |-> <<"O", "f", "f", "i", "c", "i", "a", "l", " ", "H", "i", "t", " ", "x">>, duration_seconds |-> 260],
      [videoId |-> "c", title |-> <<"O", "f", "f", "i", "c", "i", "a", "l", " ", "H", "i", "t", " ", "a", "u", "d", "i", "o">>, duration_seconds |-> 205,
       artists |-> <<[name |-> <<"A", "b">>]>>, views |-> "2M"],
      [title |-> <<"O", "f", "f", "i", "c", "i", "a", "l", " ", "H", "i", "t", " ", "a", "u", "d", "i", "o">>, duration_seconds |-> 200,
       artists |-> <<[name |-> <<"A", "b">>]>>],
      [videoId |-> "", title |-> <<"O", "f", "f", "i", "c", "i", "a", "l", " ", "H", "i", "t", " ", "a", "u", "d", "i", "o">>, duration_seconds |-> 200,
       artists |-> <<>>],
      [videoId |-> "d", title |-> <<"O", "f", "f", "i", "c", "i", "a", "l", " ", "H", "i", "t", " ", "a", "u", "d", "i", "o">>, artists |-> <<None>>] }

\* the catalog records of Scenario A and Scenario B, as ytmusicapi returns them
ScenarioRecords ==
    { [videoId |-> "k",
       title |-> <<"T", "h", "e", " ", "K", "i", "l", "l", "e", "r", "s", " ",
                  "-", " ", "M", "r", ".", " ", "B", "r", "i", "g", "h", "t",
                  "s", "i", "d", "e", " ", "(", "O", "f", "f", "i", "c", "i",
                  "a", "l", " ", "M", "u", "s", "i", "c", " ", "V", "i", "d",
                  "e", "o", ")">>,
       artists |-> <<[name |-> <<"T", "h", "e", " ", "K", "i", "l", "l", "e", "r", "s">>]>>,
       duration_seconds |-> 222,
       views |-> "500M"],
      [videoId |-> "q",
       title |-> <<"M", "r", ".", " ", "B", "r", "i", "g", "h", "t", "s", "i",
                  "d", "e", " ", "(", "K", "a", "r", "a", "o", "k", "e", " ",
                  "V", "e", "r", "s", "i", "o", "n", ")">>,
       artists |-> <<[name |-> <<"K", "a", "r", "a", "o", "k", "e", "F", "a", "n">>]>>,
       duration_seconds |-> 225] }

\* catalog records for Scenario A that tie: the official upload, a re-upload
\* of the same length and title, and a longer version with a lower score
TieRecords ==
    { [videoId |-> "k",
       title |-> <<"T", "h", "e", " ", "K", "i", "l", "l", "e", "r", "s", " ",
                  "-", " ", "M", "r", ".", " ", "B", "r", "i", "g", "h", "t",
                  "s", "i", "d", "e", " ", "(", "O", "f", "f", "i", "c", "i",
                  "a", "l", " ", "M", "u", "s", "i", "c", " ", "V", "i", "d",
                  "e", "o", ")">>,
       artists |-> <<[name |-> <<"T", "h", "e", " ", "K", "i", "l", "l", "e", "r", "s">>]>>,
       duration_seconds |-> 222,
       views |-> "500M"],
      [videoId |-> "m",
       title |-> <<"T", "h", "e", " ", "K", "i", "l", "l", "e", "r", "s", " ",
                  "-", " ", "M", "r", ".", " ", "B", "r", "i", "g", "h", "t",
                  "s", "i", "d", "e", " ", "(", "O", "f", "f", "i", "c", "i",
                  "a", "l", " ", "M", "u", "s", "i", "c", " ", "V", "i", "d",
                  "e", "o", ")">>,
       artists |-> <<[name |-> <<"T", "h", "e", " ", "K", "i", "l", "l", "e", "r", "s">>]>>,
       duration_seconds |-> 223],
      [videoId |-> "l",
       title |-> <<"M", "r", ".", " ", "B", "r", "i", "g", "h", "t", "s", "i",
                  "d", "e">>,
       artists |-> <<[name |-> <<"T", "h", "e", " ", "K", "i", "l", "l", "e", "r", "s">>]>>,
       duration_seconds |-> 300] }

Modes == 1..3

(***************************************************************************)
(* _search_with_query: mapping one raw record into all_videos              *)
(***************************************************************************)
\* variant of HasId that tests `video_id is None` only, so that an empty id passes
HasId_NoneOnly(res) == "videoId" \in DOMAIN res

\* `if not video_id: continue` keeps the records for which this holds
HasId(res) == "videoId" \in DOMAIN res /\ res.videoId # ""

\* `any(v['id'] == video_id for v in all_videos)`
IsDuplicate(videos, video_id) == \E i \in 1..Len(videos) : videos[i].id = video_id

\* variant of SkipsDuplicates in which the 'videos' loop lacks the duplicate check too
SkipsDuplicates_LastOnly(m) == m = 3

\* the duplicate check exists in the 'videos' and no-filter loops only
SkipsDuplicates(m) == m \in {2, 3}

\* artists[0].get('name', '') raises AttributeError when artists[0] is no dict
UploaderRaises(res) ==
    /\ "artists" \in DOMAIN res
    /\ res.artists # <<>>
    /\ res.artists[1] = None

\* the uploader expression of the three loops
Uploader(res) ==
    IF "artists" \in DOMAIN res /\ res.artists # <<>>
    THEN Get(res.artists[1], "name", <<>>)
    ELSE <<>>

\* variant of VideoInfo that takes the view count from the record's views
VideoInfo_KeepsViews(res) ==
    [id |-> res.videoId,
     title |-> Get(res, "title", <<>>),
     duration |-> Get(res, "duration_seconds", 0),
     uploader |-> Uploader(res),
     view_count |-> IF "views" \notin DOMAIN res THEN 0
                    ELSE IF res.views = "500M" THEN 500000000
                    ELSE IF res.views = "2M" THEN 2000000
                    ELSE 0,
     url |-> "https://music.youtube.com/watch?v=" \o res.videoId,
     webpage_url |-> "https://music.youtube.com/watch?v=" \o res.videoId]

\* the video_info dict
VideoInfo(res) ==
    [id |-> res.videoId,
     title |-> Get(res, "title", <<>>),
     duration |-> Get(res, "duration_seconds", 0),
     uploader |-> Uploader(res),
     view_count |-> 0,
     url |-> "https://music.youtube.com/watch?v=" \o res.videoId,
     webpage_url |-> "https://music.youtube.com/watch?v=" \o res.videoId]

\* one iteration of the loop of mode m over the record res
MapOutcome(m, res, videos) ==
    IF ~HasId(res) THEN "continue"
    ELSE IF SkipsDuplicates(m) /\ IsDuplicate(videos, res.videoId) THEN "continue"
    ELSE IF UploaderRaises(res) THEN "raise"
    ELSE "append"

(***************************************************************************)
(* _find_best_match                                                        *)
(***************************************************************************)
\* every video_info the collector can build
Candidates ==
    {VideoInfo(res) : res \in {r \in RawRecords \cup ScenarioRecords \cup TieRecords :
                                  HasId(r) /\ ~UploaderRaises(r)}}

\* the score of each candidate against each target, computed once
ScoreTable ==
    [t \in Targets |->
        [v \in Candidates |->
            score_video(v, t.track_name, t.artist_name, t.duration_seconds)]]

\* the score of each candidate against the arguments of the call
ScoreMemo == ScoreTable[args]

\* variant of IsEligible with the floor one point too low
IsEligible_OffByOne(score) == score >= MIN_SCORE - 1

\* `if score >= 100`
IsEligible(score) == score >= MIN_SCORE

\* the dict appended to scored_videos
Scored(video) ==
    [url |-> video.webpage_url,
     title |-> video.title,
     duration |-> video.duration,
     uploader |-> video.uploader,
     view_count |-> view_count_of(video),
     score |-> ScoreMemo[video],
     video_id |-> video.id]

\* scored_videos: the eligible videos, in the order of videos
scored_videos(videos) ==
    LET keep == SelectSeq(videos, LAMBDA v : IsEligible(ScoreMemo[v]))
    IN  [i \in 1..Len(keep) |-> Scored(keep[i])]

\* variant of MaxByScore that returns the last element of maximal score
MaxByScore_Last(scored) ==
    scored[CHOOSE i \in 1..Len(scored) :
              /\ \A j \in 1..Len(scored) : scored[j].score <= scored[i].score
              /\ \A j \in (i + 1)..Len(scored) : scored[j].score < scored[i].score]

\* max(scored, key=score): the first element of maximal score
MaxByScore(scored) ==
    scored[CHOOSE i \in 1..Len(scored) :
              /\ \A j \in 1..Len(scored) : scored[j].score <= scored[i].score
              /\ \A j \in 1..(i - 1) : scored[j].score < scored[i].score]

\* variant of _find_best_match that returns the best-scoring video whatever its score
_find_best_match_NoFloor(videos) ==
    MaxByScore([i \in 1..Len(videos) |-> Scored(videos[i])])

_find_best_match(videos) ==
    LET scored == scored_videos(videos)
    IN  IF scored = <<>> THEN None ELSE MaxByScore(scored)

\* the value _search_with_query returns once the three modes are done
PassResult(videos) == IF videos = <<>> THEN None ELSE _find_best_match(videos)

(***************************************************************************)
(* search: the three passes                                                *)
(***************************************************************************)
\* query1, query2, query3 of each target, computed once
QueryTable ==
    [t \in Targets |->
        << _build_search_query(t.track_name, <<>>),
           _build_search_query(t.track_name, t.artist_name),
           _build_search_query(t.artist_name, t.track_name) >>]

\* variant of PassQuery in which pass 3 does not reverse the operands
PassQuery_NotReversed(p) == IF p = 1 THEN QueryTable[args][1] ELSE QueryTable[args][2]

\* query1, query2, query3
PassQuery(p) == QueryTable[args][p]

\* variant of IsHighConfidence with a strict comparison
IsHighConfidence_Strict(score) == score > HIGH_CONFIDENCE

\* `best_pass['score'] >= HIGH_CONFIDENCE`
IsHighConfidence(score) == score >= HIGH_CONFIDENCE

\* variant of UpdateBest that keeps the latest pass result without comparing scores
UpdateBest_Latest(p, bp, bo) == IF bp = None THEN bo ELSE bp

\* variant of UpdateBest that keeps the first result found
UpdateBest_KeepFirst(p, bp, bo) == IF bo = None THEN bp ELSE bo

\* best_overall after the result bp of pass p
UpdateBest(p, bp, bo) ==
    IF bp = None THEN bo
    ELSE IF p = 1 THEN bp
    ELSE IF bo = None \/ bp.score > bo.score THEN bp
    ELSE bo

\* variant of ReturnsEarly in which only pass 1 has the early return
ReturnsEarly_Pass1Only(p, bp) == p = 1 /\ bp # None /\ IsHighConfidence(bp.score)

\* passes 1 and 2 return their own result when it is a high-confidence one
ReturnsEarly(p, bp) == p \in {1, 2} /\ bp # None /\ IsHighConfidence(bp.score)

(***************************************************************************)
(* The progress tracker before any download                                *)
(***************************************************************************)
\* the empty dict
EmptyDict == [k \in {} |-> 0]

\* dict[key] = value
SetItem(dict, key, value) ==
    [k \in DOMAIN dict \cup {key} |-> IF k = key THEN value ELSE dict[k]]

\* the progress streams a client may open for the download
MaxSubscribers == 2

Subscribers == 1..MaxSubscribers

\* ProgressTracker.__init__, no progress stream open, no download task created
NoDownload ==
    /\ _progress = EmptyDict
    /\ _status = EmptyDict
    /\ _completed = EmptyDict
    /\ _subscribers = EmptyDict
    /\ queues = [s \in Subscribers |-> <<>>]
    /\ stream = [s \in Subscribers |-> "idle"]
    /\ task = [kind |-> "none", state |-> "none", updates |-> 0]

(***************************************************************************)
(* State machine of one search() call                                      *)
(***************************************************************************)
Init ==
    /\ pc = "start"
    /\ pass = 0
    /\ mode = 0
    /\ fetched = 0
    /\ query = <<>>
    /\ all_videos = <<>>
    /\ best_pass = None
    /\ best_overall = None
    /\ result = None
    /\ raised = FALSE
    /\ failed = {}
    /\ requests = <<>>
    /\ nonempty = FALSE
    /\ max_collected = {}
    /\ ydl_opts = YdlOpts
    /\ opts = None
    /\ NoDownload
    /\ origin = <<>>
    /\ last = None
    /\ args = Target
    /\ loop_video = None
    /\ loop_score = 0
    /\ accepted = FALSE

\* variant of Handler without the per-mode try blocks: the try of _search_with_query catches
Handler_NoModeTry(site) ==
    IF site \in {"request", "map", "score"} THEN "pass" ELSE "search"

\* the except clause that catches an exception raised at a site of the code:
\* the per-mode try blocks, the try of _search_with_query, the try of search
Handler(site) ==
    IF site \in {"request", "map"} THEN "mode"
    ELSE IF site = "score" THEN "pass"
    ELSE "search"

\* variant of AfterMode that requests a mode once more when its try block raised
AfterMode_RetryOnce(m) ==
    IF /\ pc = "request"
       /\ Cardinality({i \in 1..Len(requests) :
                          requests[i][1] = pass /\ requests[i][2] = m}) = 0
    THEN /\ mode' = m
         /\ pc' = "request"
    ELSE IF m < 3
         THEN /\ mode' = m + 1
              /\ pc' = "request"
         ELSE /\ mode' = m
              /\ pc' = "score"

\* control after the loop of mode m is over, or after its except clause ran
AfterMode(m) ==
    IF m < 3
    THEN /\ mode' = m + 1
         /\ pc' = "request"
    ELSE /\ mode' = m
         /\ pc' = "score"

\* an exception raised at `site`: control resumes after the except clause that catches it
Raise(site) ==
    LET h == Handler(site)
    IN  /\ IF h = "mode" THEN AfterMode(mode)
           ELSE IF h = "pass" THEN mode' = mode /\ pc' = "decide"
           ELSE mode' = mode /\ pc' = "done"
        /\ best_pass' = IF h = "pass" THEN None ELSE best_pass
        /\ result' = IF h \in {"search", "caller"} THEN None ELSE result
        /\ raised' = (h = "caller")

\* variant of CopyOpts without the copy: opts is self.ydl_opts itself
CopyOpts_Alias(stored, call) ==
    LET local == IF "proxy" \in DOMAIN call /\ call.proxy # <<>>
                 THEN [k \in DOMAIN stored \cup {"proxy"} |->
                          IF k = "proxy" THEN call.proxy ELSE stored[k]]
                 ELSE stored
    IN  <<local, local>>

\* lines 97-99: opts = self.ydl_opts.copy(), then opts['proxy'] = proxy when the
\* call passes a (non-empty) proxy; the pair <<self.ydl_opts, opts>> afterwards
CopyOpts(stored, call) ==
    LET local == IF "proxy" \in DOMAIN call /\ call.proxy # <<>>
                 THEN [k \in DOMAIN stored \cup {"proxy"} |->
                          IF k = "proxy" THEN call.proxy ELSE stored[k]]
                 ELSE stored
    IN  <<stored, local>>

\* lines 87-103: the client is constructed
Begin ==
    /\ pc = "start"
    /\ pc' = "query"
    /\ ydl_opts' = CopyOpts(ydl_opts, args)[1]
    /\ opts' = CopyOpts(ydl_opts, args)[2]
    /\ UNCHANGED <<pass, mode, fetched, query, all_videos, best_pass, best_overall, result,
                   raised, failed, requests, nonempty, max_collected>>

\* line 102 raises: YTMusic() could not be constructed
BeginFail ==
    /\ pc = "start"
    /\ Raise("client")
    /\ ydl_opts' = CopyOpts(ydl_opts, args)[1]
    /\ opts' = CopyOpts(ydl_opts, args)[2]
    /\ UNCHANGED <<pass, fetched, query, all_videos, best_overall,
                   failed, requests, nonempty, max_collected>>

\* query1 / query2 / query3 is built and _search_with_query is entered
BuildQuery ==
    /\ pc = "query"
    /\ pass' = pass + 1
    /\ query' = PassQuery(pass + 1)
    /\ mode' = 1
    /\ fetched' = 0
    /\ all_videos' = <<>>
    /\ failed' = {}
    /\ pc' = "request"
    /\ UNCHANGED <<best_pass, best_overall, result, raised, requests, nonempty, max_collected>>

\* ytmusic.search(query, filter of the mode, limit) returns a response
Request ==
    /\ pc = "request"
    /\ requests' = Append(requests, <<pass, mode, query>>)
    /\ fetched' = 0
    /\ pc' = "map"
    /\ UNCHANGED <<pass, mode, query, all_videos, best_pass, best_overall, result, raised,
                   failed, nonempty, max_collected>>

\* ytmusic.search raises (network error, timeout, bad response)
RequestFail ==
    /\ pc = "request"
    /\ requests' = Append(requests, <<pass, mode, query>>)
    /\ failed' = failed \cup {mode}
    /\ fetched' = 0
    /\ Raise("request")
    /\ UNCHANGED <<pass, query, all_videos, best_overall, nonempty, max_collected>>

\* one iteration of `for result in ...`, over the record res the response holds next
MapRecord(res) ==
    /\ pc = "map"
    /\ fetched < max_results
    /\ fetched' = fetched + 1
    /\ nonempty' = TRUE
    /\ LET outcome == MapOutcome(mode, res, all_videos)
       IN  /\ all_videos' = IF outcome = "append"
                            THEN Append(all_videos, VideoInfo(res)) ELSE all_videos
           /\ failed' = IF outcome = "raise" THEN failed \cup {mode} ELSE failed
           /\ IF outcome = "raise"
              THEN Raise("map")
              ELSE UNCHANGED <<pc, mode, best_pass, result, raised>>
    /\ UNCHANGED <<pass, query, best_overall, requests, max_collected>>

\* the response has no further record: the loop of the mode ends
EndResponse ==
    /\ pc = "map"
    /\ AfterMode(mode)
    /\ UNCHANGED <<pass, fetched, query, all_videos, best_pass, best_overall, result, raised,
                   failed, requests, nonempty, max_collected>>

\* the highest of a non-empty set of scores
MaxOf(S) == CHOOSE x \in S : \A y \in S : y <= x

\* lines 302-316: the pass returns its best match
ScorePass ==
    /\ pc = "score"
    /\ best_pass' = PassResult(all_videos)
    /\ max_collected' =
          LET scores == max_collected \cup {ScoreMemo[all_videos[i]] : i \in 1..Len(all_videos)}
          IN  IF scores = {} THEN {} ELSE {MaxOf(scores)}
    /\ pc' = "decide"
    /\ UNCHANGED <<pass, mode, fetched, query, all_videos, best_overall, result, raised,
                   failed, requests, nonempty>>

\* variant of Decide that asks the catalog again while the three passes found nothing
Decide_RetryUntilFound ==
    /\ pc = "decide"
    /\ best_overall' = UpdateBest(pass, best_pass, best_overall)
    /\ IF ReturnsEarly(pass, best_pass)
       THEN /\ result' = best_pass
            /\ pc' = "done"
       ELSE IF pass = 3
            THEN IF best_overall' # None
                 THEN /\ result' = best_overall'
                      /\ pc' = "done"
                 ELSE /\ result' = result
                      /\ pc' = "request"
            ELSE /\ result' = result
                 /\ pc' = "query"
    /\ UNCHANGED <<pass, mode, fetched, query, all_videos, best_pass, raised,
                   failed, requests, nonempty, max_collected>>

\* lines 116-124, 137-146, 159-172: search handles the result of the pass
Decide ==
    /\ pc = "decide"
    /\ best_overall' = UpdateBest(pass, best_pass, best_overall)
    /\ IF ReturnsEarly(pass, best_pass)
       THEN /\ result' = best_pass
            /\ pc' = "done"
       ELSE IF pass = 3
            THEN /\ result' = best_overall'
                 /\ pc' = "done"
            ELSE /\ result' = result
                 /\ pc' = "query"
    /\ UNCHANGED <<pass, mode, fetched, query, all_videos, best_pass, raised,
                   failed, requests, nonempty, max_collected>>

\* the whole search; the collector history is not kept
Next ==
    \/ Begin /\ UNCHANGED <<origin, last, args, score_vars, progress_vars>>
    \/ BeginFail /\ UNCHANGED <<origin, last, args, score_vars, progress_vars>>
    \/ BuildQuery /\ UNCHANGED <<origin, last, args, score_vars, self_vars, progress_vars>>
    \/ Request /\ UNCHANGED <<origin, last, args, score_vars, self_vars, progress_vars>>
    \/ RequestFail /\ UNCHANGED <<origin, last, args, score_vars, self_vars, progress_vars>>
    \/ \E res \in RawRecords : MapRecord(res) /\ UNCHANGED <<origin, last, args, score_vars, self_vars, progress_vars>>
    \/ EndResponse /\ UNCHANGED <<origin, last, args, score_vars, self_vars, progress_vars>>
    \/ ScorePass /\ UNCHANGED <<origin, last, args, score_vars, self_vars, progress_vars>>
    \/ Decide /\ UNCHANGED <<origin, last, args, score_vars, self_vars, progress_vars>>

Spec == Init /\ [][Next]_vars

(***************************************************************************)
(* The first call of _search_with_query, with the collector history: where *)
(* each entry of all_videos came from and which record was looked at last  *)
(***************************************************************************)
\* origin after the iteration over res
OriginAfter(res) ==
    IF MapOutcome(mode, res, all_videos) = "append"
    THEN Append(origin, [mode |-> mode, rec |-> res])
    ELSE origin

NextCollect ==
    \/ Begin /\ UNCHANGED <<origin, last, args, score_vars, progress_vars>>
    \/ BeginFail /\ UNCHANGED <<origin, last, args, score_vars, progress_vars>>
    \/ pass = 0 /\ BuildQuery /\ origin' = <<>> /\ last' = None /\ UNCHANGED <<args, score_vars, self_vars, progress_vars>>
    \/ Request /\ last' = None /\ UNCHANGED <<origin, args, score_vars, self_vars, progress_vars>>
    \/ RequestFail /\ last' = None /\ UNCHANGED <<origin, args, score_vars, self_vars, progress_vars>>
    \/ \E res \in RawRecords : MapRecord(res) /\ origin' = OriginAfter(res) /\ last' = res
          /\ UNCHANGED <<args, score_vars, self_vars, progress_vars>>
    \/ EndResponse /\ last' = None /\ UNCHANGED <<origin, args, score_vars, self_vars, progress_vars>>
    \/ ScorePass /\ UNCHANGED <<origin, last, args, score_vars, self_vars, progress_vars>>

SpecCollect == Init /\ [][NextCollect]_vars

(***************************************************************************)
(* search called with the arguments of Scenario A, or with a negative      *)
(* expected duration, against a catalog holding the Scenario A and B       *)
(* records                                                                 *)
(***************************************************************************)
InitScenario ==
    /\ pc = "start"
    /\ args \in {ScenarioATarget, NegativeTarget, ProxyTarget}
    /\ pass = 0
    /\ mode = 0
    /\ fetched = 0
    /\ query = <<>>
    /\ all_videos = <<>>
    /\ best_pass = None
    /\ best_overall = None
    /\ result = None
    /\ raised = FALSE
    /\ failed = {}
    /\ requests = <<>>
    /\ nonempty = FALSE
    /\ max_collected = {}
    /\ ydl_opts = YdlOpts
    /\ opts = None
    /\ NoDownload
    /\ origin = <<>>
    /\ last = None
    /\ loop_video = None
    /\ loop_score = 0
    /\ accepted = FALSE

NextScenario ==
    \/ Begin /\ UNCHANGED <<origin, last, args, score_vars, progress_vars>>
    \/ BeginFail /\ UNCHANGED <<origin, last, args, score_vars, progress_vars>>
    \/ BuildQuery /\ UNCHANGED <<origin, last, args, score_vars, self_vars, progress_vars>>
    \/ Request /\ UNCHANGED <<origin, last, args, score_vars, self_vars, progress_vars>>
    \/ RequestFail /\ UNCHANGED <<origin, last, args, score_vars, self_vars, progress_vars>>
    \/ \E res \in ScenarioRecords : MapRecord(res) /\ UNCHANGED <<origin, last, args, score_vars, self_vars, progress_vars>>
    \/ EndResponse /\ UNCHANGED <<origin, last, args, score_vars, self_vars, progress_vars>>
    \/ ScorePass /\ UNCHANGED <<origin, last, args, score_vars, self_vars, progress_vars>>
    \/ Decide /\ UNCHANGED <<origin, last, args, score_vars, self_vars, progress_vars>>

SpecScenario == InitScenario /\ [][NextScenario]_vars

(***************************************************************************)
(* The search as a running program: sequential code always takes its next  *)
(* step, and a catalog request returns or raises (ytmusicapi gives up on a  *)
(* request after its session timeout)                                      *)
(***************************************************************************)
FairSpec == SpecScenario /\ WF_vars(NextScenario)

(***************************************************************************)
(* The loop body of _find_best_match, one criterion per step, run on one   *)
(* video and one target drawn from the sets below                          *)
(***************************************************************************)
\* the arguments _find_best_match is analysed with
ScoreTargets ==
    {Target, ScenarioATarget, NegativeTarget, FourWordTarget, ShortWordTarget, FiveWordTarget}

\* the videos _find_best_match is analysed with: dicts as the collector or
\* another caller may hand them over, some keys missing
ScoreVideos ==
    { [title |-> <<"H", "i", "t">>,
       uploader |-> <<"A", "b">>,
       duration |-> 260,
       view_count |-> 0],
      [title |-> <<"O", "f", "f", "i", "c", "i", "a", "l", " ", "H", "i", "t",
                  " ", "a", "u", "d", "i", "o">>,
       uploader |-> <<"A", "b">>,
       duration |-> 205,
       view_count |-> 0],
      [title |-> <<"H", "i", "t", " ", "O", "f", "f", "i", "c", "i", "a", "l">>,
       uploader |-> <<"A", "b", "c">>,
       duration |-> 200,
       view_count |-> 0],
      [title |-> <<"O", "f", "f", "i", "c", "i", "a", "l", " ", "H", "i", "t",
                  " ", "x">>,
       uploader |-> <<>>,
       duration |-> 230,
       view_count |-> 1500],
      [title |-> <<"T", "h", "e", " ", "K", "i", "l", "l", "e", "r", "s", " ",
                  "-", " ", "M", "r", ".", " ", "B", "r", "i", "g", "h", "t",
                  "s", "i", "d", "e", " ", "(", "O", "f", "f", "i", "c", "i",
                  "a", "l", " ", "M", "u", "s", "i", "c", " ", "V", "i", "d",
                  "e", "o", ")">>,
       uploader |-> <<"T", "h", "e", " ", "K", "i", "l", "l", "e", "r", "s">>,
       duration |-> 222,
       view_count |-> 500000000],
      [title |-> <<"M", "r", ".", " ", "B", "r", "i", "g", "h", "t", "s", "i",
                  "d", "e", " ", "(", "K", "a", "r", "a", "o", "k", "e", " ",
                  "V", "e", "r", "s", "i", "o", "n", ")">>,
       uploader |-> <<"K", "a", "r", "a", "o", "k", "e", "F", "a", "n">>,
       duration |-> 225],
      [title |-> <<"s", "u", "n", " ", "s", "k", "y", " ", "r", "e", "d">>,
       uploader |-> <<"A", "b">>,
       duration |-> 0,
       view_count |-> 150000],
      [title |-> <<"o", "f", "f", "i", "c", "i", "a", "l", " ", "a", "u", "d",
                  "i", "o">>,
       uploader |-> <<"A", "b">>,
       duration |-> 200,
       view_count |-> 2000000],
      [title |-> <<"h", "i", "t", " ", "s", "o", "n", "g">>,
       uploader |-> <<"T", "h", "e", " ", "B", "a", "n", "d", " ", "X", "y",
                     "z">>,
       duration |-> 203,
       view_count |-> 20000],
      [title |-> <<"O", "f", "f", "i", "c", "i", "a", "l", " ", "H", "i", "t",
                  " ", "r", "e", "m", "i", "x", " ", "k", "a", "r", "a", "o",
                  "k", "e">>,
       uploader |-> <<"A", "b">>,
       duration |-> 204,
       view_count |-> 999],
      [title |-> <<"O", "f", "f", "i", "c", "i", "a", "l", " ", "H", "i", "t",
                  " ", "r", "e", "m", "i", "x">>,
       uploader |-> <<"A", "b">>,
       duration |-> 210,
       view_count |-> 1000],
      [title |-> <<"O", "f", "f", "i", "c", "i", "a", "l", " ", "H", "i", "t">>,
       uploader |-> <<"A", "b">>,
       duration |-> 211,
       view_count |-> 10000],
      [title |-> <<"O", "f", "f", "i", "c", "i", "a", "l", " ", "H", "i", "t",
                  " ", "l", "y", "r", "i", "c", "s">>,
       view_count |-> 100000],
      [title |-> <<"T", "h", "e", " ", "K", "i", "l", "l", "e", "r", "s", " ",
                  "-", " ", "M", "r", ".", " ", "B", "r", "i", "g", "h", "t",
                  "s", "i", "d", "e">>,
       uploader |-> <<"V", "e", "v", "o">>,
       duration |-> 231,
       view_count |-> 1000000] }

\* _find_best_match is entered with one video; the loop body starts with score = 0
InitScore ==
    /\ pc = "track_match"
    /\ args \in ScoreTargets
    /\ loop_video \in ScoreVideos
    /\ loop_score = 0
    /\ accepted = FALSE
    /\ pass = 0
    /\ mode = 0
    /\ fetched = 0
    /\ query = <<>>
    /\ all_videos = <<>>
    /\ best_pass = None
    /\ best_overall = None
    /\ result = None
    /\ raised = FALSE
    /\ failed = {}
    /\ requests = <<>>
    /\ nonempty = FALSE
    /\ max_collected = {}
    /\ ydl_opts = YdlOpts
    /\ opts = None
    /\ NoDownload
    /\ origin = <<>>
    /\ last = None

\* title, uploader, track_lower, artist_lower of the loop body
loop_title == lower(Get(loop_video, "title", <<>>))

loop_uploader == lower(Get(loop_video, "uploader", <<>>))

track_lower == lower(args.track_name)

artist_lower == lower(args.artist_name)

\* one criterion of the loop body: score += delta, then the next criterion
Criterion(at, delta, next) ==
    /\ pc = at
    /\ loop_score' = loop_score + delta
    /\ pc' = next
    /\ UNCHANGED <<pass, mode, fetched, query, all_videos, best_pass, best_overall, result,
                   raised, failed, requests, nonempty, max_collected, origin, last,
                   args, loop_video, accepted, self_vars, progress_vars>>

\* lines 386-398
TrackWordMatch ==
    Criterion("track_match", track_match_score(loop_title, track_lower), "artist_presence")

\* lines 400-407
ArtistPresence ==
    Criterion("artist_presence",
              artist_presence_score(loop_title, loop_uploader, artist_lower), "duration")

\* lines 409-424
DurationMatching ==
    Criterion("duration",
              duration_score(Get(loop_video, "duration", 0), args.duration_seconds), "views")

\* lines 426-441
ViewCount ==
    Criterion("views", view_score(view_count_of(loop_video)), "good_words")

\* lines 443-448
TitleKeywords ==
    Criterion("good_words", good_word_score(loop_title), "official")

\* lines 450-453
Official ==
    Criterion("official", official_score(loop_title), "title_similarity")

\* lines 457-461
TitleSimilarity ==
    Criterion("title_similarity", title_score(loop_title, track_lower), "artist_similarity")

\* lines 463-469
ArtistSimilarity ==
    Criterion("artist_similarity",
              artist_score(loop_title, loop_uploader, artist_lower), "penalties")

\* lines 473-484
KeywordPenalties ==
    Criterion("penalties", keyword_penalty(loop_title), "threshold")

\* lines 488-498: the video is appended to scored_videos when it reaches the floor
Threshold ==
    /\ pc = "threshold"
    /\ accepted' = IsEligible(loop_score)
    /\ pc' = "scored"
    /\ UNCHANGED <<pass, mode, fetched, query, all_videos, best_pass, best_overall, result,
                   raised, failed, requests, nonempty, max_collected, origin, last,
                   args, loop_video, loop_score, self_vars, progress_vars>>

NextScore ==
    \/ TrackWordMatch
    \/ ArtistPresence
    \/ DurationMatching
    \/ ViewCount
    \/ TitleKeywords
    \/ Official
    \/ TitleSimilarity
    \/ ArtistSimilarity
    \/ KeywordPenalties
    \/ Threshold

SpecScore == InitScore /\ [][NextScore]_vars

(***************************************************************************)
(* _calculate_similarity called on its own: the two strings are drawn from *)
(* the strings below, the call returns in one step                        *)
(***************************************************************************)
\* the longest string the pure functions are called with
MaxLen == 3

\* the characters of those strings: two letters and the blank
Alphabet == {"a", "b", " "}

Strings == UNION {[1..k -> Alphabet] : k \in 0..MaxLen}

InitSimilarity ==
    /\ pc = "call_similarity"
    /\ args \in [str1 : Strings, str2 : Strings]
    /\ result = None
    /\ loop_video = None
    /\ loop_score = 0
    /\ accepted = FALSE
    /\ pass = 0
    /\ mode = 0
    /\ fetched = 0
    /\ query = <<>>
    /\ all_videos = <<>>
    /\ best_pass = None
    /\ best_overall = None
    /\ raised = FALSE
    /\ failed = {}
    /\ requests = <<>>
    /\ nonempty = FALSE
    /\ max_collected = {}
    /\ ydl_opts = YdlOpts
    /\ opts = None
    /\ NoDownload
    /\ origin = <<>>
    /\ last = None

\* lines 510-537: the call returns the similarity of the two strings
CallSimilarity ==
    /\ pc = "call_similarity"
    /\ result' = _calculate_similarity(args.str1, args.str2)
    /\ pc' = "returned"
    /\ UNCHANGED <<pass, mode, fetched, query, all_videos, best_pass, best_overall,
                   raised, failed, requests, nonempty, max_collected, origin, last,
                   args, score_vars, self_vars, progress_vars>>

NextSimilarity == CallSimilarity

SpecSimilarity == InitSimilarity /\ [][NextSimilarity]_vars

(***************************************************************************)
(* _build_search_query called on its own: track and artist are drawn from  *)
(* the strings below, the call returns in one step                         *)
(***************************************************************************)
\* the characters of the track names: a letter, the blank, the line break and
\* the four delimiters
QueryAlphabet == {"a", " ", "\n", "(", ")", "[", "]"}

\* track names with a feature annotation, as the catalog of the caller has them
FeatureTracks ==
    { <<"a", " ", "(", "F", "e", "a", "t", ".", " ", "b", ")">>,
      <<"a", " ", "(", "f", "t", ".", " ", "b", ")", " ", "[", "c", "]">>,
      <<"a", " ", "(", "f", "e", "a", "t", "u", "r", "i", "n", "g", " ", "b", ")">> }

QueryTracks == UNION {[1..k -> QueryAlphabet] : k \in 0..MaxLen} \cup FeatureTracks

QueryArtists == {<<>>, <<"a">>, <<")">>, <<"]", " ">>}

InitQuery ==
    /\ pc = "call_build_query"
    /\ args \in [track : QueryTracks, artist : QueryArtists]
    /\ result = None
    /\ loop_video = None
    /\ loop_score = 0
    /\ accepted = FALSE
    /\ pass = 0
    /\ mode = 0
    /\ fetched = 0
    /\ query = <<>>
    /\ all_videos = <<>>
    /\ best_pass = None
    /\ best_overall = None
    /\ raised = FALSE
    /\ failed = {}
    /\ requests = <<>>
    /\ nonempty = FALSE
    /\ max_collected = {}
    /\ ydl_opts = YdlOpts
    /\ opts = None
    /\ NoDownload
    /\ origin = <<>>
    /\ last = None

\* lines 322-348: the call returns the cleaned query
CallBuildQuery ==
    /\ pc = "call_build_query"
    /\ result' = _build_search_query(args.track, args.artist)
    /\ pc' = "returned"
    /\ UNCHANGED <<pass, mode, fetched, query, all_videos, best_pass, best_overall,
                   raised, failed, requests, nonempty, max_collected, origin, last,
                   args, score_vars, self_vars, progress_vars>>

NextQuery == CallBuildQuery

SpecQuery == InitQuery /\ [][NextQuery]_vars

(***************************************************************************)
(* search called with the arguments of Scenario A against a catalog whose  *)
(* records tie                                                             *)
(***************************************************************************)
InitTies ==
    /\ pc = "start"
    /\ args = ScenarioATarget
    /\ pass = 0
    /\ mode = 0
    /\ fetched = 0
    /\ query = <<>>
    /\ all_videos = <<>>
    /\ best_pass = None
    /\ best_overall = None
    /\ result = None
    /\ raised = FALSE
    /\ failed = {}
    /\ requests = <<>>
    /\ nonempty = FALSE
    /\ max_collected = {}
    /\ ydl_opts = YdlOpts
    /\ opts = None
    /\ NoDownload
    /\ origin = <<>>
    /\ last = None
    /\ loop_video = None
    /\ loop_score = 0
    /\ accepted = FALSE

NextTies ==
    \/ Begin /\ UNCHANGED <<origin, last, args, score_vars, progress_vars>>
    \/ BeginFail /\ UNCHANGED <<origin, last, args, score_vars, progress_vars>>
    \/ BuildQuery /\ UNCHANGED <<origin, last, args, score_vars, self_vars, progress_vars>>
    \/ Request /\ UNCHANGED <<origin, last, args, score_vars, self_vars, progress_vars>>
    \/ RequestFail /\ UNCHANGED <<origin, last, args, score_vars, self_vars, progress_vars>>
    \/ \E res \in TieRecords : MapRecord(res) /\ UNCHANGED <<origin, last, args, score_vars, self_vars, progress_vars>>
    \/ EndResponse /\ UNCHANGED <<origin, last, args, score_vars, self_vars, progress_vars>>
    \/ ScorePass /\ UNCHANGED <<origin, last, args, score_vars, self_vars, progress_vars>>
    \/ Decide /\ UNCHANGED <<origin, last, args, score_vars, self_vars, progress_vars>>

SpecTies == InitTies /\ [][NextTies]_vars

(***************************************************************************)
(* The progress tracker serving one download: the download task, the       *)
(* cancel endpoint and the progress streams of the clients. Every method   *)
(* of the tracker runs under self._lock from its first to its last         *)
(* statement and the queues are unbounded, so each method is one step.     *)
(* _errors and _start_times are written and never read back by these       *)
(* methods; a client that closes its stream is not part of this model.     *)
(***************************************************************************)
\* the download_id of the download
DownloadId == "d1"

\* the progress updates the task sends before it completes
MaxUpdates == 2

\* the progress values the task reports
ProgressValues == {35, 150}

\* the message set_progress and subscribe put into a queue
ProgressMessage(progress, status) == [progress |-> progress, status |-> status]

\* the final message of complete_download; it carries the error when one is given
FinalMessage(progress, status, success, error) ==
    IF error # ""
    THEN [progress |-> progress, status |-> status, completed |-> TRUE, success |-> success,
          error |-> error]
    ELSE [progress |-> progress, status |-> status, completed |-> TRUE, success |-> success]

\* `for queue in self._subscribers[download_id]: await queue.put(message)`
Notify(subscribers, message) ==
    [s \in Subscribers |->
        IF \E i \in 1..Len(subscribers) : subscribers[i] = s
        THEN Append(queues[s], message)
        ELSE queues[s]]

\* /api/download or /api/download/custom-url: the task is created
InitProgress ==
    /\ pc = "serving"
    /\ _progress = EmptyDict
    /\ _status = EmptyDict
    /\ _completed = EmptyDict
    /\ _subscribers = EmptyDict
    /\ queues = [s \in Subscribers |-> <<>>]
    /\ stream = [s \in Subscribers |-> "idle"]
    /\ task \in [kind : {"track", "custom_url"}, state : {"created"}, updates : {0}]
    /\ args = Target
    /\ ydl_opts = YdlOpts
    /\ opts = None
    /\ pass = 0
    /\ mode = 0
    /\ fetched = 0
    /\ query = <<>>
    /\ all_videos = <<>>
    /\ best_pass = None
    /\ best_overall = None
    /\ result = None
    /\ raised = FALSE
    /\ failed = {}
    /\ requests = <<>>
    /\ nonempty = FALSE
    /\ max_collected = {}
    /\ origin = <<>>
    /\ last = None
    /\ loop_video = None
    /\ loop_score = 0
    /\ accepted = FALSE

\* ProgressTracker.start_download, the first statement of _download_task
start_download ==
    /\ task.kind = "track"
    /\ task.state = "created"
    /\ _progress' = SetItem(_progress, DownloadId, 0)
    /\ _status' = SetItem(_status, DownloadId, "Starting download...")
    /\ _completed' = SetItem(_completed, DownloadId, FALSE)
    /\ _subscribers' = SetItem(_subscribers, DownloadId, <<>>)
    /\ task' = [task EXCEPT !.state = "running"]
    /\ UNCHANGED <<queues, stream>>

\* ProgressTracker.set_progress, called by the running task (a custom-URL task
\* starts with it, without start_download)
set_progress(progress, status) ==
    /\ \/ task.state = "running"
       \/ task.kind = "custom_url" /\ task.state = "created"
    /\ task.updates < MaxUpdates
    /\ _progress' = SetItem(_progress, DownloadId,
                            IF progress > 100 THEN 100 ELSE IF progress < 0 THEN 0 ELSE progress)
    /\ _status' = SetItem(_status, DownloadId, status)
    /\ queues' = IF DownloadId \in DOMAIN _subscribers
                 THEN Notify(_subscribers[DownloadId],
                             ProgressMessage(_progress'[DownloadId], _status'[DownloadId]))
                 ELSE queues
    /\ task' = [task EXCEPT !.state = "running", !.updates = @ + 1]
    /\ UNCHANGED <<_completed, _subscribers, stream>>

\* ProgressTracker.complete_download: the final message is built, and sent,
\* only when the download has a subscriber list; building it raises KeyError
\* when the download has no progress entry, and then nothing is sent
complete_download(success, error) ==
    /\ _completed' = SetItem(_completed, DownloadId, TRUE)
    /\ _progress' = IF success THEN SetItem(_progress, DownloadId, 100) ELSE _progress
    /\ _status' = SetItem(_status, DownloadId,
                          IF success THEN "Download complete!" ELSE "Failed: " \o error)
    /\ queues' = IF DownloadId \in DOMAIN _subscribers /\ DownloadId \in DOMAIN _progress'
                 THEN Notify(_subscribers[DownloadId],
                             FinalMessage(_progress'[DownloadId], _status'[DownloadId],
                                          success, error))
                 ELSE queues
    /\ UNCHANGED <<_subscribers, stream>>

\* the task ends: complete_download(download_id, success=True), or the except
\* clause with complete_download(download_id, success=False, error=str(e))
TaskCompletes ==
    /\ task.state = "running"
    /\ complete_download(TRUE, "") \/ complete_download(FALSE, "error")
    /\ task' = [task EXCEPT !.state = "finished"]

\* DELETE /api/download/{download_id}: the task is cancelled and the endpoint
\* calls complete_download(download_id, success=False, error="Cancelled by user")
cancel_download ==
    /\ task.state \in {"created", "running"}
    /\ complete_download(FALSE, "Cancelled by user")
    /\ task' = [task EXCEPT !.state = "cancelled"]

\* ProgressTracker.subscribe, the first statement of event_generator
subscribe(s) ==
    /\ stream[s] = "idle"
    /\ _subscribers' = SetItem(_subscribers, DownloadId,
                               Append(Get(_subscribers, DownloadId, <<>>), s))
    /\ queues' = IF DownloadId \in DOMAIN _progress
                 THEN [queues EXCEPT ![s] =
                          Append(@, ProgressMessage(_progress[DownloadId],
                                                    Get(_status, DownloadId, "In progress...")))]
                 ELSE queues
    /\ stream' = [stream EXCEPT ![s] = "waiting"]
    /\ UNCHANGED <<_progress, _status, _completed, task>>

\* event_generator: update = await queue.get(); the event is sent; the loop
\* stops when update.get('completed')
Receive(s) ==
    /\ stream[s] = "waiting"
    /\ queues[s] # <<>>
    /\ queues' = [queues EXCEPT ![s] = Tail(@)]
    /\ stream' = [stream EXCEPT ![s] =
                     IF Get(Head(queues[s]), "completed", FALSE) THEN "closing" ELSE "waiting"]
    /\ UNCHANGED <<_progress, _status, _completed, _subscribers, task>>

\* ProgressTracker.unsubscribe, in the finally clause of event_generator
unsubscribe(s) ==
    /\ stream[s] = "closing"
    /\ _subscribers' =
          IF DownloadId \in DOMAIN _subscribers
          THEN SetItem(_subscribers, DownloadId,
                       SelectSeq(_subscribers[DownloadId], LAMBDA q : q # s))
          ELSE _subscribers
    /\ stream' = [stream EXCEPT ![s] = "ended"]
    /\ UNCHANGED <<_progress, _status, _completed, queues, task>>

\* the steps of the download task
TaskStep ==
    /\ \/ start_download
       \/ \E progress \in ProgressValues :
             set_progress(progress, "Downloading audio from YouTube...")
       \/ TaskCompletes
    /\ UNCHANGED <<search_vars, origin, last, args, score_vars, self_vars>>

\* the steps of the progress stream s once it is open
StreamStep(s) ==
    /\ Receive(s) \/ unsubscribe(s)
    /\ UNCHANGED <<search_vars, origin, last, args, score_vars, self_vars>>

NextProgress ==
    \/ TaskStep
    \/ cancel_download /\ UNCHANGED <<search_vars, origin, last, args, score_vars, self_vars>>
    \/ \E s \in Subscribers :
          subscribe(s) /\ UNCHANGED <<search_vars, origin, last, args, score_vars, self_vars>>
    \/ \E s \in Subscribers : StreamStep(s)

SpecProgress == InitProgress /\ [][NextProgress]_vars

(***************************************************************************)
(* The same under the scheduling of the asyncio event loop: a coroutine    *)
(* that can take its next step does take it, so the task runs on until it  *)
(* completes and a stream whose queue holds a message receives it; nothing *)
(* forces a client to open a stream or to cancel the download              *)
(***************************************************************************)
FairProgress ==
    /\ SpecProgress
    /\ WF_vars(TaskStep)
    /\ \A s \in Subscribers : WF_vars(StreamStep(s))

(***************************************************************************)
(* Properties                                                              *)
(***************************************************************************)
\* the score of the pass result held in best_pass reaches the high-confidence threshold
PassIsHigh == best_pass # None /\ best_pass.score >= 180

C2_EarlyStop ==
    [][/\ pc # "done"
       /\ (pc = "decide" /\ pass \in {1, 2} /\ PassIsHigh)
             => /\ pc' = "done"
                /\ result' = best_pass
                /\ requests' = requests
                /\ query' = query
                /\ pass' = pass]_vars

\* search returned the result of pass 1, of score 180 or more, after the three
\* requests of pass 1 only
C2_Witness ==
    /\ pc = "done"
    /\ pass = 1
    /\ Len(requests) = 3
    /\ result # None
    /\ result.score >= 180
    /\ result = best_pass

\* C3: the passes run in the order 1, 2, 3, one after the other, and after pass
\* 1 and pass 2 the next pass is attempted exactly when the pass had no result
\* or a result scoring below 180 (179 goes on, 180 stops).
C3_PassOrder ==
    [][/\ pass' \in {pass, pass + 1}
       /\ pass' = pass + 1 => (pc = "query" /\ pass < 3 /\ pc' = "request")
       /\ pc = "query" => pass' = pass + 1
       /\ (pc = "decide" /\ pass \in {1, 2})
             => /\ pc' \in {"query", "done"}
                /\ pc' = "query" <=> (best_pass = None \/ best_pass.score < 180)
       /\ (pc = "decide" /\ pass = 3) => pc' = "done"
       /\ \A i \in 1..Len(requests') : \A j \in i..Len(requests') :
             requests'[i][1] <= requests'[j][1]]_vars

\* pass 1 ended with a result scoring exactly 179 and pass 2 is being requested
C3_Witness ==
    /\ pc = "request"
    /\ pass = 2
    /\ best_pass # None
    /\ best_pass.score = 179
    /\ best_overall = best_pass

\* C4: each pass result is the highest-scoring eligible candidate of the pass,
\* and the candidate search returns scores at least as high as every eligible
\* candidate (score >= 100) collected in any pass that was executed.
C4_ReturnsMaximum ==
    /\ pc = "decide" =>
          \A i \in 1..Len(all_videos) :
             ScoreMemo[all_videos[i]] >= 100
                => best_pass # None /\ best_pass.score >= ScoreMemo[all_videos[i]]
    /\ pc = "done" =>
          \A s \in max_collected :
             s >= 100 => result # None /\ result.score >= s

\* after three passes search returned a candidate scoring 179 found by an
\* earlier pass, the result of pass 3 being an eligible candidate scoring 100
C4_Witness ==
    /\ pc = "done"
    /\ pass = 3
    /\ best_pass # None
    /\ best_pass.score = 100
    /\ result # None
    /\ result.score = 179

ModeFails == failed' # failed /\ pass' = pass

\* C6: a failing catalog request (or any exception in the try block of a mode)
\* never ends the pass or the search and never reaches the caller: the next
\* mode of the pass is requested as after an empty response, every mode that is
\* reached issues its request, and after the pass the search goes on to the
\* next pass unless the pass result is a high-confidence one.
C6_FailureIsLocal ==
    [][/\ ~raised'
       /\ ModeFails =>
             /\ failed' = failed \cup {mode}
             /\ all_videos' = all_videos
             /\ result' = result
             /\ IF mode < 3
                THEN pc' = "request" /\ mode' = mode + 1
                ELSE pc' = "score" /\ mode' = mode
       /\ pc = "request" => requests' = Append(requests, <<pass, mode, query>>)
       /\ pc = "score" => pc' = "decide" /\ best_pass' = PassResult(all_videos)
       /\ (pc = "decide" /\ failed # {} /\ pass < 3 /\ ~PassIsHigh) => pc' = "query"]_vars

\* the 'songs' request of pass 1 failed, the two other modes were requested,
\* and pass 2 is about to be built
C6_Witness ==
    /\ pc = "query"
    /\ pass = 1
    /\ 1 \in failed
    /\ Len(requests) = 3
    /\ ~raised

\* C7: a mode whose try block raised contributes no candidate: none of the
\* entries handed to the scorer was built from a response of a failed mode,
\* also when the exception came while the records were being mapped.
C7_FailedModeContributesNothing ==
    pc \in {"score", "decide"} =>
       \A i \in 1..Len(origin) : origin[i].mode \notin failed

\* C8: the list handed to the scorer never holds two candidates of the same id.
C8_UniqueIds ==
    pc \in {"score", "decide"} =>
       \A i \in 1..Len(all_videos) : \A j \in 1..Len(all_videos) :
          all_videos[i].id = all_videos[j].id => i = j

\* all_videos grows at its end only, by the candidate built from the record
\* looked at in the step
GrowsAtEnd ==
    \/ all_videos' = all_videos /\ origin' = origin
    \/ /\ last' # None
       /\ all_videos' = Append(all_videos, VideoInfo(last'))
       /\ origin' = Append(origin, [mode |-> mode, rec |-> last'])

\* C9: the collected list is the concatenation of the candidates of the
\* 'songs', then the 'videos', then the unfiltered mode, each in the order
\* of its response, and a later mode never replaces or repeats an id that an
\* earlier mode contributed: the record kept is the earliest mode's.
C9_ModeOrder ==
    [][/\ pc # "query" => GrowsAtEnd
       /\ \A i \in 1..Len(origin') : \A j \in i..Len(origin') :
             /\ origin'[i].mode <= origin'[j].mode
             /\ (all_videos'[i].id = all_videos'[j].id /\ i # j)
                   => origin'[i].mode = origin'[j].mode
       /\ \A i \in 1..Len(origin') : all_videos'[i] = VideoInfo(origin'[i].rec)]_vars

\* a later mode returned a record whose id an earlier mode had contributed
\* with other fields: the earlier record is the one in the list
C9_Witness ==
    /\ pc = "map"
    /\ mode \in {2, 3}
    /\ last # None
    /\ HasId(last)
    /\ \E i \in 1..Len(all_videos) :
          /\ all_videos[i].id = last.videoId
          /\ origin[i].mode < mode
          /\ origin[i].rec # last
    /\ \A i \in 1..Len(all_videos) : origin[i].rec # last

\* C10: every candidate of the list handed to the scorer has a non-empty id, and
\* was built from a record that has one.
C10_NoEmptyId ==
    \A i \in 1..Len(all_videos) :
       /\ all_videos[i].id # ""
       /\ "videoId" \in DOMAIN origin[i].rec
       /\ origin[i].rec.videoId # ""

\* the loop has just looked at a record without the videoId key and dropped it
C10_Witness ==
    /\ pc = "map"
    /\ last # None
    /\ "videoId" \notin DOMAIN last
    /\ all_videos # <<>>

\* C11: within one search every filter mode is requested at most once per pass,
\* also after it failed: no two requests have the same pass and mode, a pass
\* issues at most three requests and the search at most nine.
C11_NoRetry ==
    /\ Len(requests) <= 9
    /\ \A i \in 1..Len(requests) : \A j \in 1..Len(requests) :
          (requests[i][1] = requests[j][1] /\ requests[i][2] = requests[j][2]) => i = j
    /\ \A p \in 1..3 : Cardinality({i \in 1..Len(requests) : requests[i][1] = p}) <= 3
    /\ \A i \in 1..Len(requests) : requests[i][1] \in 1..3 /\ requests[i][2] \in Modes

\* the search ended after nine requests, the 'videos' request of its last pass
\* having failed
C11_Witness ==
    /\ pc = "done"
    /\ Len(requests) = 9
    /\ failed = {2}
    /\ nonempty

\* the words of the target title longer than two characters
CoverageWords == SelectSeq(split(lower(args.track_name)), LAMBDA w : Len(w) > 2)

\* how many of them the title of the video contains
CoverageMatched ==
    Cardinality({i \in 1..Len(CoverageWords) :
                    IsIn(CoverageWords[i], lower(Get(loop_video, "title", <<>>)))})

\* the video's title holds fewer than half of the words of the target title
LowCoverage == CoverageWords # <<>> /\ 2 * CoverageMatched < Len(CoverageWords)

\* the most the criteria applied before position p can add to a score
BestCase(p) ==
    CASE p = "artist_presence" -> 0
      [] p = "duration" -> 20
      [] p = "views" -> 50
      [] p = "good_words" -> 65
      [] p = "official" -> 80
      [] p = "title_similarity" -> 90
      [] p = "artist_similarity" -> 140
      [] OTHER -> 170

\* C12: a video whose title holds fewer than half of the target title's words
\* of length > 2 gets the -100 penalty, and whatever the other criteria add
\* (at most 170 together) its score stays below 100: it is never accepted.
C12_PenaltyIsFatal ==
    (LowCoverage /\ pc \in {"artist_presence", "duration", "views", "good_words", "official",
                            "title_similarity", "artist_similarity", "penalties",
                            "threshold", "scored"})
       => /\ loop_score <= BestCase(pc) - 100
          /\ loop_score < 100
          /\ ~accepted

\* a video with two of five title words that collects every other bonus but
\* the full title similarity ends at 60 and is dropped
C12_Witness ==
    /\ pc = "scored"
    /\ LowCoverage
    /\ loop_score = 60
    /\ ~accepted

\* the Scenario A candidate is in the list the pass collected
HasScenarioA == \E i \in 1..Len(all_videos) : all_videos[i].id = "k"

\* C14: Scenario A. Searching "Mr. Brightside" by "The Killers" (222 s), a pass
\* that collected "The Killers - Mr. Brightside (Official Music Video)"
\* (uploader "The Killers", 222 s, 500M views) gives it a score of 180 or more
\* and has it as its result, in pass 1 or 2, so that the search returns it.
C14_ScenarioA ==
    (args = ScenarioATarget /\ pc = "decide" /\ HasScenarioA)
       => /\ best_pass # None
          /\ best_pass.video_id = "k"
          /\ best_pass.score >= 180
          /\ pass <= 2

\* C16: a search called with a negative expected duration is rejected at the
\* boundary: it issues no catalog request, scores nothing and returns no match.
C16_RejectsNegativeDuration ==
    args.duration_seconds < 0
       => /\ requests = <<>>
          /\ all_videos = <<>>
          /\ result = None

\* the latest catalog request
LastRequest == requests[Len(requests)]

\* buildQuery of section 4.1 of the spec for each pair of operands the three
\* passes of section 4.2 use: title alone, title then performer, performer
\* then title
ExpectedQueries ==
    [t \in Targets |->
        [p \in 1..3 |->
            LET first == IF p = 3 THEN t.artist_name ELSE t.track_name
                second == IF p = 1 THEN <<>> ELSE IF p = 2 THEN t.artist_name ELSE t.track_name
            IN  _build_search_query(first, second)]]

\* for each target, the score of each candidate against the target itself
TargetScore ==
    [t \in Targets |->
        [v \in Candidates |->
            score_video(v, t.track_name, t.artist_name, t.duration_seconds)]]

\* C15: pass 1 queries with buildQuery(title, ""), pass 2 with
\* buildQuery(title, performer), pass 3 with buildQuery(performer, title), and
\* the result of every pass carries the score of its candidate against the
\* track name, artist name and duration search was called with.
C15_PassQueries ==
    /\ requests # <<>> =>
          /\ LastRequest[1] \in 1..3
          /\ LastRequest[3] = ExpectedQueries[args][LastRequest[1]]
    /\ pc \in {"map", "score", "decide"} => (LastRequest[1] = pass /\ LastRequest[3] = query)
    /\ (pc = "decide" /\ best_pass # None) =>
          \E i \in 1..Len(all_videos) :
             /\ all_videos[i].id = best_pass.video_id
             /\ all_videos[i].title = best_pass.title
             /\ best_pass.score = TargetScore[args][all_videos[i]]

\* the three passes ran with the queries "Official Hit", "Official Hit Ab" and
\* "Ab Official Hit", and the search returned a candidate
C15_Witness ==
    /\ pc = "done"
    /\ Len(requests) = 9
    /\ requests[1][3] = <<"O", "f", "f", "i", "c", "i", "a", "l", " ", "H", "i", "t">>
    /\ requests[4][3] = <<"O", "f", "f", "i", "c", "i", "a", "l", " ", "H", "i", "t", " ", "A", "b">>
    /\ requests[7][3] = <<"A", "b", " ", "O", "f", "f", "i", "c", "i", "a", "l", " ", "H", "i", "t">>
    /\ result # None
    /\ failed = {}

RoundTimes(x, k) == (2 * x[1] * k + x[2]) \div (2 * x[2])

\* x * k truncated to an integer, for the fraction x >= 0
TruncTimes(x, k) == (x[1] * k) \div x[2]

\* the coverage fraction f of the video's title
Coverage == <<CoverageMatched, Len(CoverageWords)>>

\* C18 as stated: the title word coverage criterion adds -100 when f < 0.5 and
\* round(f * 50) otherwise, and 0 when the target title has no word longer
\* than 2 characters.
C18_CoverageRounded ==
    [][pc = "track_match" =>
          loop_score' - loop_score =
             IF CoverageWords = <<>> THEN 0
             ELSE IF LowCoverage THEN -100
             ELSE RoundTimes(Coverage, 50)]_vars

\* C18 as amended: the title word coverage criterion adds -100 when f < 0.5 and
\* f * 50 truncated to an integer otherwise (f = 3/4 gives +37, f = 1/2 gives
\* +25), and 0 when the target title has no word longer than 2 characters.
C18_CoverageTruncated ==
    [][pc = "track_match" =>
          loop_score' - loop_score =
             IF CoverageWords = <<>> THEN 0
             ELSE IF LowCoverage THEN -100
             ELSE TruncTimes(Coverage, 50)]_vars

\* a title with three of the four words of the target title got +37
C18_Witness ==
    /\ pc = "artist_presence"
    /\ Len(CoverageWords) = 4
    /\ CoverageMatched = 3
    /\ loop_score = 37

\* similarity(target title, candidate title)
TitleSim ==
    _calculate_similarity(lower(args.track_name), lower(Get(loop_video, "title", <<>>)))

\* the larger of similarity(performer, uploader) and similarity(performer, candidate title)
PerformerSim ==
    LET u == _calculate_similarity(lower(args.artist_name),
                                   lower(Get(loop_video, "uploader", <<>>)))
        t == _calculate_similarity(lower(args.artist_name),
                                   lower(Get(loop_video, "title", <<>>)))
    IN  IF u[1] * t[2] >= t[1] * u[2] THEN u ELSE t

\* C19 as stated: the title similarity criterion adds round(sim * 50) and the
\* performer similarity criterion round(sim * 30), sim being the larger of the
\* performer's similarity with the uploader and with the candidate title.
C19_SimilarityRounded ==
    [][/\ pc = "title_similarity" => loop_score' - loop_score = RoundTimes(TitleSim, 50)
       /\ pc = "artist_similarity" => loop_score' - loop_score = RoundTimes(PerformerSim, 30)]_vars

\* C19 as amended: the title similarity criterion adds sim * 50 truncated to an
\* integer (a Jaccard similarity of 1/3 gives +16) and the performer
\* similarity criterion sim * 30 truncated to an integer, sim being the larger
\* of the performer's similarity with the uploader and with the candidate title.
C19_SimilarityTruncated ==
    [][/\ pc = "title_similarity" => loop_score' - loop_score = TruncTimes(TitleSim, 50)
       /\ pc = "artist_similarity" => loop_score' - loop_score = TruncTimes(PerformerSim, 30)]_vars

\* "hit song" against the title "Official Hit": one common word of three, and
\* the title similarity step took the score from 50 to 66
C19_Witness ==
    /\ pc = "artist_similarity"
    /\ TitleSim = <<1, 3>>
    /\ loop_score = 66

\* the candidate's duration, 0 when unknown
CandidateDuration == IF "duration" \in DOMAIN loop_video THEN loop_video.duration ELSE 0

\* |candidate duration - expected duration|
DurationDiff ==
    IF CandidateDuration >= args.duration_seconds
    THEN CandidateDuration - args.duration_seconds
    ELSE args.duration_seconds - CandidateDuration

\* C20: the duration criterion is evaluated only when the expected and the
\* candidate's duration are both > 0, and then adds +30 for a difference of at
\* most 3 seconds, +20 up to 10, +10 up to 30 and -10 beyond; when the expected
\* duration is 0 or the candidate's duration is unknown it adds exactly 0.
C20_DurationCriterion ==
    [][pc = "duration" =>
          /\ pc' = "views"
          /\ (args.duration_seconds > 0 /\ CandidateDuration > 0) =>
                loop_score' - loop_score =
                   CASE DurationDiff <= 3 -> 30
                     [] DurationDiff > 3 /\ DurationDiff <= 10 -> 20
                     [] DurationDiff > 10 /\ DurationDiff <= 30 -> 10
                     [] DurationDiff > 30 -> -10
          /\ (args.duration_seconds = 0 \/ CandidateDuration = 0) =>
                loop_score' = loop_score]_vars

\* a target of unknown duration (0) and a 260-second candidate: the duration
\* step left the score as the two criteria before it had made it
C20_Witness ==
    /\ pc = "views"
    /\ args.duration_seconds = 0
    /\ CandidateDuration = 260
    /\ loop_score = -80

\* the candidate's view count, 0 when the video carries none
CandidateViews == IF "view_count" \in DOMAIN loop_video THEN loop_video.view_count ELSE 0

\* C21: the popularity criterion adds +15 for a view count >= 1,000,000, +10 for
\* >= 100,000, +5 for >= 10,000, 0 for >= 1,000 and -5 below 1,000; a view
\* count of 0 or a missing view count gets the same -5 as a low view count.
C21_ViewCriterion ==
    [][pc = "views" =>
          /\ pc' = "good_words"
          /\ loop_score' - loop_score =
                CASE CandidateViews >= 1000000 -> 15
                  [] CandidateViews >= 100000 /\ CandidateViews < 1000000 -> 10
                  [] CandidateViews >= 10000 /\ CandidateViews < 100000 -> 5
                  [] CandidateViews >= 1000 /\ CandidateViews < 10000 -> 0
                  [] CandidateViews < 1000 -> -5
          /\ ("view_count" \notin DOMAIN loop_video \/ loop_video.view_count = 0) =>
                loop_score' = loop_score - 5]_vars

\* the karaoke candidate, which carries no view count, scored for Scenario A:
\* 70 after the first three criteria, 65 after the popularity criterion
C21_Witness ==
    /\ pc = "good_words"
    /\ "view_count" \notin DOMAIN loop_video
    /\ args = ScenarioATarget
    /\ loop_score = 65

\* the denylisted keywords present in the candidate's title
MatchedKeywords == {i \in 1..Len(bad_keywords) : IsIn(bad_keywords[i], loop_title)}

\* C22: the unwanted-version penalty is additive: the penalty step lowers the
\* score by exactly 50 for each denylisted keyword present in the title, so a
\* title with no keyword keeps its score, one keyword costs 50 and two cost 100.
C22_PenaltyAdditive ==
    [][pc = "penalties" =>
          /\ pc' = "threshold"
          /\ loop_score' = loop_score - 50 * Cardinality(MatchedKeywords)
          /\ MatchedKeywords = {} => loop_score' = loop_score
          /\ Cardinality(MatchedKeywords) = 2 => loop_score' = loop_score - 100]_vars

\* 'Official Hit remix karaoke' scored for 'Official Hit': 165 before the
\* penalty step, 65 after it
C22_Witness ==
    /\ pc = "threshold"
    /\ args = Target
    /\ Cardinality(MatchedKeywords) = 2
    /\ loop_score = 65

\* the whitespace-separated words of the two arguments of similarity
Words1 == {split(args.str1)[i] : i \in 1..Len(split(args.str1))}

Words2 == {split(args.str2)[i] : i \in 1..Len(split(args.str2))}

\* one argument of similarity contains the other
OneContainsOther == IsIn(args.str1, args.str2) \/ IsIn(args.str2, args.str1)

\* the fraction returned by the call equals n / d
ReturnedIs(n, d) == result[1] * d = n * result[2]

\* C23: similarity(a, b) is 1.0 when a equals b; else 0.8 when either string
\* contains the other; else the Jaccard ratio of the two word sets when both are
\* non-empty; else the sequence-matcher ratio; and it always lies in [0, 1].
C23_SimilarityRules ==
    pc = "returned" =>
       /\ result[2] > 0 /\ 0 <= result[1] /\ result[1] <= result[2]
       /\ args.str1 = args.str2 => ReturnedIs(1, 1)
       /\ (args.str1 # args.str2 /\ OneContainsOther) => ReturnedIs(4, 5)
       /\ (args.str1 # args.str2 /\ ~OneContainsOther /\ Words1 # {} /\ Words2 # {}) =>
             ReturnedIs(Cardinality(Words1 \cap Words2), Cardinality(Words1 \cup Words2))
       /\ (args.str1 # args.str2 /\ ~OneContainsOther /\ (Words1 = {} \/ Words2 = {})) =>
             result = SequenceMatcherRatio(args.str1, args.str2)

\* similarity('  ', 'a b'): neither contains the other and the first has no
\* word, so the sequence-matcher ratio 2 * 1 / 5 is returned
C23_Witness ==
    /\ pc = "returned"
    /\ args = [str1 |-> <<" ", " ">>, str2 |-> <<"a", " ", "b">>]
    /\ result = <<2, 5>>

\* s holds a group: the opening delimiter with the closing one somewhere after it
HasGroup(s, open, close) ==
    \E i \in 1..Len(s) : \E j \in (i + 1)..Len(s) : s[i] = open /\ s[j] = close

\* C24: for every pair of inputs, buildQuery returns a string with no leading or
\* trailing whitespace, no run of two or more whitespace characters and no
\* remaining (...) or [...] group, and the empty string when both inputs are empty.
C24_QueryClean ==
    pc = "returned" =>
       /\ result # <<>> => (result[1] \notin Whitespace /\ result[Len(result)] \notin Whitespace)
       /\ \A i \in 1..(Len(result) - 1) :
             ~(result[i] \in Whitespace /\ result[i + 1] \in Whitespace)
       /\ ~HasGroup(result, "(", ")")
       /\ ~HasGroup(result, "[", "]")
       /\ (args.track = <<>> /\ args.artist = <<>>) => result = <<>>

\* C25: a search mutates nothing outside the call's own local data: the
\* searcher's stored options are the ones __init__ stored at every point of the
\* call and after it returns (with a result, with absent, or after an internal
\* failure), also when a proxy is passed, and scoring leaves the candidates the
\* collector built as they are.
C25_FrameCondition ==
    /\ [](ydl_opts = YdlOpts)
    /\ [][pc = "score" => all_videos' = all_videos]_vars

\* a search called with a proxy has returned a candidate: its own copy of the
\* options holds the proxy, the stored options do not
C25_Witness ==
    /\ pc = "done"
    /\ args = ProxyTarget
    /\ result # None
    /\ "proxy" \in DOMAIN opts
    /\ "proxy" \notin DOMAIN ydl_opts
    /\ all_videos # <<>>

\* the score of the i-th collected candidate of the current pass
CollectedScore(i) == ScoreTable[args][all_videos[i]]

\* the positions in the collected list whose candidate reaches the floor
EligiblePositions == {i \in 1..Len(all_videos) : CollectedScore(i) >= 100}

\* the earliest position of maximal score among them
FirstBestPosition ==
    CHOOSE i \in EligiblePositions :
       \A j \in EligiblePositions :
          CollectedScore(j) < CollectedScore(i) \/ (CollectedScore(j) = CollectedScore(i) /\ j >= i)

\* C26: ties are broken by first-seen order. Within a pass the result is the
\* candidate of maximal score that is earliest in the collected list; across
\* passes a later pass replaces the running best-overall only when its score is
\* strictly greater, so the earlier pass wins a tie.
C26_TiesFirstSeen ==
    [][/\ (pc = "score" /\ EligiblePositions # {}) =>
             /\ best_pass' # None
             /\ best_pass'.video_id = all_videos[FirstBestPosition].id
             /\ best_pass'.score = CollectedScore(FirstBestPosition)
       /\ (pc = "decide" /\ pass > 1 /\ best_pass # None /\ best_overall # None) =>
             best_overall' = IF best_pass.score > best_overall.score
                             THEN best_pass ELSE best_overall]_vars

\* pass 3 collected the re-upload before the official upload, both scoring 165,
\* and has the re-upload as its result; the search returns the official upload,
\* which an earlier pass had found first
C26_Witness ==
    /\ pc = "done"
    /\ pass = 3
    /\ Len(all_videos) = 2
    /\ all_videos[1].id = "m"
    /\ all_videos[2].id = "k"
    /\ CollectedScore(1) = CollectedScore(2)
    /\ best_pass # None
    /\ best_pass.video_id = "m"
    /\ result # None
    /\ result.video_id = "k"

\* C27: whenever search returns early from pass 2, the candidate it returns
\* (pass 2's result) is also the best-overall candidate: its score is strictly
\* greater than the score of pass 1's result, if pass 1 had one; so whatever
\* search returns is the best-overall candidate of the executed passes.
C27_EarlyReturnIsBest ==
    /\ [][(pc = "decide" /\ pass = 2 /\ PassIsHigh) =>
             /\ pc' = "done"
             /\ result' = best_pass
             /\ best_overall' = best_pass
             /\ best_overall # None => best_overall.score < best_pass.score]_vars
    /\ []((pc = "done" /\ result # None) => result = best_overall)

\* search returned early from pass 2, after six requests, with a candidate
\* scoring 180 that is also the best-overall candidate
C27_Witness ==
    /\ pc = "done"
    /\ pass = 2
    /\ Len(requests) = 6
    /\ result # None
    /\ result.score = 180
    /\ result = best_pass
    /\ result = best_overall
    /\ max_collected = {180}

\* the candidate's uploader name is empty or missing
UploaderUnknown == Get(loop_video, "uploader", <<>>) = <<>>

\* C28: a candidate whose uploader name is empty still gets a performer
\* similarity of at least 0.8, hence a performer-similarity delta of at least
\* +24, for every non-empty target performer; and similarity(a, "") is 0.8 for
\* every non-empty a and 1.0 for a = "".
C28_EmptyUploaderMatches ==
    /\ [][(pc = "artist_similarity" /\ UploaderUnknown /\ args.artist_name # <<>>) =>
             /\ 5 * PerformerSim[1] >= 4 * PerformerSim[2]
             /\ loop_score' - loop_score >= 24]_vars
    /\ [](\A a \in Strings :
             _calculate_similarity(a, <<>>) = IF a = <<>> THEN <<1, 1>> ELSE <<4, 5>>)

\* 'Official Hit x' with an empty uploader, scored for the performer 'Ab' that
\* its title does not name: the performer similarity step took the score from
\* 100 to 124
C28_Witness ==
    /\ pc = "penalties"
    /\ args = Target
    /\ "uploader" \in DOMAIN loop_video
    /\ loop_video.uploader = <<>>
    /\ loop_score = 124

\* for each target, what the criteria other than popularity add to each candidate
OtherCriteria ==
    [t \in Targets |->
        [v \in Candidates |->
            LET title == lower(v.title)
                uploader == lower(v.uploader)
                track == lower(t.track_name)
                artist == lower(t.artist_name)
            IN  track_match_score(title, track)
                + artist_presence_score(title, uploader, artist)
                + duration_score(v.duration, t.duration_seconds)
                + good_word_score(title)
                + official_score(title)
                + title_score(title, track)
                + artist_score(title, uploader, artist)
                + keyword_penalty(title)]]

\* C29: every candidate built by the collector has view count 0 whatever the
\* catalog record says, so every candidate scored through search gets the -5
\* popularity delta: a pass result scores 5 less than its other criteria add,
\* and a returned score of 180 or more has at least 185 from the other criteria.
C29_NoPopularityThroughSearch ==
    /\ \A i \in 1..Len(all_videos) : all_videos[i].view_count = 0
    /\ (pc = "decide" /\ best_pass # None) =>
          /\ best_pass.view_count = 0
          /\ \E i \in 1..Len(all_videos) :
                /\ all_videos[i].id = best_pass.video_id
                /\ best_pass.score = OtherCriteria[args][all_videos[i]] - 5
    /\ result # None =>
          /\ result.view_count = 0
          /\ \E v \in Candidates :
                /\ v.id = result.video_id
                /\ result.score = OtherCriteria[args][v] - 5
                /\ result.score >= 180 => OtherCriteria[args][v] >= 185

\* search returned the candidate built from the record that states 2M views:
\* view count 0, score 180 = 185 - 5
C29_Witness ==
    /\ pc = "done"
    /\ result # None
    /\ result.video_id = "c"
    /\ result.view_count = 0
    /\ result.score = 180
    /\ OtherCriteria[args][CHOOSE v \in Candidates : v.id = "c"] = 185

\* complete_download has run for the download
DownloadCompleted == DownloadId \in DOMAIN _completed /\ _completed[DownloadId]

\* C30: for every download that gets completed, every progress subscriber of
\* that download eventually receives a message with completed = true, so its
\* stream ends, whether it subscribed before start_download ran, between start
\* and completion, or after complete_download ran.
C30_StreamsEnd ==
    \A s \in Subscribers :
       (stream[s] = "waiting" /\ DownloadCompleted) ~> (stream[s] \in {"closing", "ended"})

====
